---- MODULE Spec2Model ----
(***************************************************************************)
(* Model of properties-comparator (index.js): the .properties parser, the  *)
(* YAML flattener, the extension dispatcher and compareFileData.           *)
(*                                                                         *)
(* A JavaScript string is a sequence of one-character strings.  A plain    *)
(* JavaScript object is the sequence of its own enumerable properties in   *)
(* the order Object.keys/Object.entries lists them: array-index keys in    *)
(* ascending numeric order first, then the other keys in insertion order.  *)
(***************************************************************************)
EXTENDS Integers, Sequences, FiniteSets, TLC

(***************************************************************************)
(* Bounds of the model.                                                    *)
(***************************************************************************)
MaxFiles == 3
MaxTotalLines == 2
MaxContentLen == 5
MaxYamlDepth == 2

(***************************************************************************)
(* Strings.                                                                *)
(***************************************************************************)
Whitespace == {" ", "\t", "\r", "\n"}

Digits == <<"0", "1", "2", "3", "4", "5", "6", "7", "8", "9">>

Min(a, b) == IF a < b THEN a ELSE b

\* s.slice(from, to) for 0 <= from, to: the characters at 0-based positions
\* from .. to-1.
Slice(s, from, to) == SubSeq(s, from + 1, Min(to, Len(s)))

\* s.slice(from)
SliceFrom(s, from) == SubSeq(s, from + 1, Len(s))

\* s.indexOf(c): the 0-based position of the first c in s, or -1.
IndexOf(s, c) ==
  IF \E i \in 1..Len(s) : s[i] = c
  THEN (CHOOSE i \in 1..Len(s) : s[i] = c /\ \A j \in 1..(i - 1) : s[j] # c) - 1
  ELSE -1

\* s.startsWith(c) for a one-character c.
StartsWith(s, c) == Len(s) > 0 /\ s[1] = c

RECURSIVE TrimStart(_)
TrimStart(s) ==
  IF Len(s) > 0 /\ s[1] \in Whitespace THEN TrimStart(Tail(s)) ELSE s

RECURSIVE TrimEnd(_)
TrimEnd(s) ==
  IF Len(s) > 0 /\ s[Len(s)] \in Whitespace
  THEN TrimEnd(SubSeq(s, 1, Len(s) - 1))
  ELSE s

\* s.trim()
Trim(s) == TrimEnd(TrimStart(s))

IsNotWhitespace(c) == c \notin Whitespace

\* s.replace(/\s+/g, "")
RemoveWhitespace(s) == SelectSeq(s, IsNotWhitespace)

\* content.split(/\r?\n/): cur is the piece being read.
RECURSIVE SplitLinesFrom(_, _)
SplitLinesFrom(s, cur) ==
  IF Len(s) = 0 THEN <<cur>>
  ELSE IF s[1] = "\n" THEN <<cur>> \o SplitLinesFrom(Tail(s), <<>>)
  ELSE IF s[1] = "\r" /\ Len(s) > 1 /\ s[2] = "\n"
       THEN <<cur>> \o SplitLinesFrom(Tail(Tail(s)), <<>>)
  ELSE SplitLinesFrom(Tail(s), Append(cur, s[1]))

SplitLines(s) == SplitLinesFrom(s, <<>>)

\* lines.join(sep)
RECURSIVE Join(_, _)
Join(lines, sep) ==
  IF Len(lines) = 0 THEN <<>>
  ELSE IF Len(lines) = 1 THEN lines[1]
  ELSE lines[1] \o sep \o Join(Tail(lines), sep)

DigitValue(c) == (CHOOSE i \in 1..10 : Digits[i] = c) - 1

IsDigit(c) == \E i \in 1..10 : Digits[i] = c

RECURSIVE NumVal(_)
NumVal(s) ==
  IF Len(s) = 0 THEN 0
  ELSE 10 * NumVal(SubSeq(s, 1, Len(s) - 1)) + DigitValue(s[Len(s)])

\* The decimal form of a natural number, as String(n) gives it.
RECURSIVE NatToString(_)
NatToString(n) ==
  IF n < 10 THEN <<Digits[n + 1]>>
  ELSE Append(NatToString(n \div 10), Digits[(n % 10) + 1])

(***************************************************************************)
(* Plain objects.                                                          *)
(***************************************************************************)
\* A key that is a canonical array index ("0", "1", ..., no leading zero):
\* such keys are listed first by Object.keys, in ascending numeric order.
\* (Keys of up to nine digits; the limit 2^32 - 2 lies beyond them.)
IsArrayIndex(k) ==
  /\ Len(k) > 0
  /\ Len(k) <= 9
  /\ \A i \in 1..Len(k) : IsDigit(k[i])
  /\ (Len(k) = 1 \/ k[1] # "0")

ProtoKey == <<"_", "_", "p", "r", "o", "t", "o", "_", "_">>

ValueOfKey == <<"v", "a", "l", "u", "e", "O", "f">>

ToStringKey == <<"t", "o", "S", "t", "r", "i", "n", "g">>

ConstructorKey == <<"c", "o", "n", "s", "t", "r", "u", "c", "t", "o", "r">>

\* Members every plain object inherits from Object.prototype (those the model
\* names).
ObjectPrototypeKeys == {ValueOfKey, ToStringKey, ConstructorKey, ProtoKey}

EmptyObject == <<>>

\* Object.keys(obj)
ObjectKeys(obj) == [i \in 1..Len(obj) |-> obj[i].k]

HasOwn(obj, k) == \E i \in 1..Len(obj) : obj[i].k = k

OwnValue(obj, k) == obj[CHOOSE i \in 1..Len(obj) : obj[i].k = k].v

\* Where a new own property k is listed among the properties of obj.
InsertPosition(obj, k) ==
  IF IsArrayIndex(k)
  THEN 1 + Cardinality({i \in 1..Len(obj) :
                          IsArrayIndex(obj[i].k) /\ NumVal(obj[i].k) < NumVal(k)})
  ELSE Len(obj) + 1

\* obj[k] = v for a string v.  An existing property keeps its place; a write
\* to __proto__ with a non-object value is ignored by the inherited setter.
ObjectSet(obj, k, v) ==
  IF k = ProtoKey THEN obj
  ELSE IF HasOwn(obj, k)
  THEN [i \in 1..Len(obj) |-> IF obj[i].k = k THEN [k |-> k, v |-> v] ELSE obj[i]]
  ELSE LET p == InsertPosition(obj, k)
       IN SubSeq(obj, 1, p - 1) \o <<[k |-> k, v |-> v]>> \o SubSeq(obj, p, Len(obj))

\* obj[k]: an own property, else a member inherited from Object.prototype,
\* else undefined.
ObjectGet(obj, k) ==
  IF HasOwn(obj, k) THEN [type |-> "string", s |-> OwnValue(obj, k)]
  ELSE IF k \in ObjectPrototypeKeys THEN [type |-> "inherited", s |-> <<>>]
  ELSE [type |-> "undefined", s |-> <<>>]

(***************************************************************************)
(* parsePropertiesFile                                                     *)
(***************************************************************************)
\* One iteration of the loop over the lines: the result after the line.
ParsePropertiesLineKeepingComment(result, line) ==
  LET trimmed == Trim(line)
      eqIndex == IndexOf(trimmed, "=")
      key == Trim(Slice(trimmed, 0, eqIndex))
      value == Trim(SliceFrom(trimmed, eqIndex + 1))
  IN IF Len(trimmed) = 0 \/ StartsWith(trimmed, "#") THEN result
     ELSE IF eqIndex = -1 THEN result
     ELSE IF Len(key) > 0 THEN ObjectSet(result, key, value)
     ELSE result

ParsePropertiesLine(result, line) ==
  LET trimmed == Trim(line)
      hashIndex == IndexOf(trimmed, "#")
      stripped == IF hashIndex # -1 THEN Trim(Slice(trimmed, 0, hashIndex)) ELSE trimmed
      eqIndex == IndexOf(stripped, "=")
      key == Trim(Slice(stripped, 0, eqIndex))
      value == Trim(SliceFrom(stripped, eqIndex + 1))
  IN IF Len(trimmed) = 0 \/ StartsWith(trimmed, "#") THEN result
     ELSE IF eqIndex = -1 THEN result
     ELSE IF Len(key) > 0 THEN ObjectSet(result, key, value)
     ELSE result

RECURSIVE ParsePropertiesLines(_, _)
ParsePropertiesLines(result, lines) ==
  IF Len(lines) = 0 THEN result
  ELSE ParsePropertiesLines(ParsePropertiesLine(result, lines[1]), Tail(lines))

ParsePropertiesContent(content) ==
  ParsePropertiesLines(EmptyObject, SplitLines(content))

\* fs.readFileSync(filePath, "utf-8"): the content, or an exception whose
\* message is the cause.
ReadFileSync(f) ==
  IF f.readable
  THEN [threw |-> FALSE, err |-> "none", content |-> f.content]
  ELSE [threw |-> TRUE, err |-> "read-failed", content |-> <<>>]

\* One console.error call of a parser: the message, the path it names and
\* the err.message given with it.
LogEntry(msg, path, cause) == [msg |-> msg, path |-> path, cause |-> cause]

\* What a parser gives its caller: the returned object, what it reported with
\* console.error, whether an exception left it, and whether it read the file.
ParseResult(obj, log, raised, read) ==
  [obj |-> obj, log |-> log, raised |-> raised, read |-> read]

\* The try block of parsePropertiesFile.
TryParseProperties(f) ==
  LET r == ReadFileSync(f)
  IN IF r.threw
     THEN [threw |-> TRUE, err |-> r.err, obj |-> EmptyObject]
     ELSE [threw |-> FALSE, err |-> "none", obj |-> ParsePropertiesContent(r.content)]

ParsePropertiesFileUncaught(f) ==
  LET t == TryParseProperties(f)
  IN ParseResult(t.obj, <<>>, t.threw, TRUE)

\* parsePropertiesFile: the try block and its catch.
ParsePropertiesFile(f) ==
  LET t == TryParseProperties(f)
  IN IF t.threw
     THEN ParseResult(EmptyObject, <<LogEntry("properties-error", f.path, t.err)>>,
                      FALSE, TRUE)
     ELSE ParseResult(t.obj, <<>>, FALSE, TRUE)

(***************************************************************************)
(* Decoded YAML values (the result of yaml.load) and flattenObject.        *)
(***************************************************************************)
Node(t, s, n, b, e) == [t |-> t, s |-> s, n |-> n, b |-> b, e |-> e]

StringNode(s) == Node("string", s, 0, FALSE, <<>>)

NumberNode(n) == Node("number", <<>>, n, FALSE, <<>>)

BooleanNode(b) == Node("boolean", <<>>, 0, b, <<>>)

NullNode == Node("null", <<>>, 0, FALSE, <<>>)

UndefinedNode == Node("undefined", <<>>, 0, FALSE, <<>>)

\* An array; e holds its elements.
SequenceNode(elements) == Node("sequence", <<>>, 0, FALSE, elements)

\* A plain object; e holds its properties, in own-property order.
MappingNode(properties) == Node("mapping", <<>>, 0, FALSE, properties)

\* String(value) for an element of an array: null and undefined give "".
RECURSIVE ToStringValue(_)
RECURSIVE JoinElements(_)
JoinElements(elements) ==
  IF Len(elements) = 0 THEN <<>>
  ELSE LET first == IF elements[1].t \in {"null", "undefined"}
                    THEN <<>>
                    ELSE ToStringValue(elements[1])
       IN IF Len(elements) = 1 THEN first
          ELSE first \o <<",">> \o JoinElements(Tail(elements))

\* String(value)
ToStringValue(node) ==
  CASE node.t = "string" -> node.s
    [] node.t = "number" -> NatToString(node.n)
    [] node.t = "boolean" -> IF node.b THEN <<"t", "r", "u", "e">>
                                       ELSE <<"f", "a", "l", "s", "e">>
    [] node.t = "null" -> <<"n", "u", "l", "l">>
    [] node.t = "undefined" -> <<"u", "n", "d", "e", "f", "i", "n", "e", "d">>
    [] node.t = "sequence" -> JoinElements(node.e)
    [] node.t = "mapping" -> <<"[", "o", "b", "j", "e", "c", "t", " ",
                                "O", "b", "j", "e", "c", "t", "]">>

\* value is falsy (the test of obj || {} and of parentKey ? ... : ...)
IsFalsy(node) ==
  \/ node.t \in {"null", "undefined"}
  \/ node.t = "string" /\ Len(node.s) = 0
  \/ node.t = "number" /\ node.n = 0
  \/ node.t = "boolean" /\ ~node.b

\* Object.entries(obj || {})
ObjectEntries(node) ==
  CASE IsFalsy(node) -> <<>>
    [] node.t = "mapping" -> node.e
    [] node.t = "sequence" ->
         [i \in 1..Len(node.e) |-> [k |-> NatToString(i - 1), v |-> node.e[i]]]
    [] node.t = "string" ->
         [i \in 1..Len(node.s) |-> [k |-> NatToString(i - 1), v |-> StringNode(<<node.s[i]>>)]]
    [] OTHER -> <<>>

\* typeof value === "object" && value !== null && !Array.isArray(value)
IsPlainObject(node) == node.t = "mapping"

NewKey(parentKey, key) ==
  IF Len(parentKey) > 0 THEN parentKey \o <<".">> \o key ELSE key

RECURSIVE FlattenObject(_, _, _)
RECURSIVE FlattenEntries(_, _, _)
\* The loop of flattenObject over the entries that remain.
FlattenEntries(entries, parentKey, res) ==
  IF Len(entries) = 0 THEN res
  ELSE LET newKey == NewKey(parentKey, entries[1].k)
           value == entries[1].v
           after == IF IsPlainObject(value)
                    THEN FlattenObject(value, newKey, res)
                    ELSE ObjectSet(res, newKey, ToStringValue(value))
       IN FlattenEntries(Tail(entries), parentKey, after)

FlattenObject(obj, parentKey, res) ==
  FlattenEntries(ObjectEntries(obj), parentKey, res)

\* yaml.load(fileContents): f.loaded is what it gives for the file's content,
\* a decoded value or a YAMLException (ok = FALSE).
YamlLoad(f) ==
  IF f.loaded.ok
  THEN [threw |-> FALSE, err |-> "none", data |-> f.loaded.data]
  ELSE [threw |-> TRUE, err |-> "yaml-exception", data |-> UndefinedNode]

\* The try block of parseYamlFile.
TryParseYaml(f) ==
  LET r == ReadFileSync(f)
      y == YamlLoad(f)
  IN IF r.threw THEN [threw |-> TRUE, err |-> r.err, obj |-> EmptyObject]
     ELSE IF y.threw THEN [threw |-> TRUE, err |-> y.err, obj |-> EmptyObject]
     ELSE [threw |-> FALSE, err |-> "none",
           obj |-> FlattenObject(y.data, <<>>, EmptyObject)]

\* parseYamlFile: the try block and its catch.
ParseYamlFile(f) ==
  LET t == TryParseYaml(f)
  IN IF t.threw
     THEN ParseResult(EmptyObject, <<LogEntry("yaml-error", f.path, t.err)>>,
                      FALSE, TRUE)
     ELSE ParseResult(t.obj, <<>>, FALSE, TRUE)

(***************************************************************************)
(* parseFile                                                               *)
(***************************************************************************)
\* ext.toLowerCase() on the extensions of the model.
ToLowerCaseNot(ext) == ext

ToLowerCase(ext) ==
  CASE ext = ".PROPERTIES" -> ".properties"
    [] ext = ".Properties" -> ".properties"
    [] ext = ".YML" -> ".yml"
    [] ext = ".Yaml" -> ".yaml"
    [] ext = ".YAML" -> ".yaml"
    [] ext = ".TXT" -> ".txt"
    [] ext = "HTML" -> "html"
    [] OTHER -> ext

\* path.extname(filePath)
ExtName(path) == path.ext

ParseFile(f) ==
  LET ext == ToLowerCase(ExtName(f.path))
  IN CASE ext = ".properties" -> ParsePropertiesFile(f)
       [] ext \in {".yml", ".yaml"} -> ParseYamlFile(f)
       [] OTHER -> ParseResult(EmptyObject,
                               <<LogEntry("unsupported-extension", f.path, "none")>>,
                               FALSE, FALSE)

(***************************************************************************)
(* compareFileData                                                         *)
(***************************************************************************)
NA == <<"N", "/", "A">>

\* [...new Set(keys)]: the first occurrence of each key, in order.
SetOrderKeepingDuplicates(keys, seen) == seen \o keys

RECURSIVE SetOrder(_, _)
SetOrder(keys, seen) ==
  IF Len(keys) = 0 THEN seen
  ELSE IF \E i \in 1..Len(seen) : seen[i] = keys[1]
  THEN SetOrder(Tail(keys), seen)
  ELSE SetOrder(Tail(keys), Append(seen, keys[1]))

\* parsedObjects.flatMap((obj) => Object.keys(obj))
RECURSIVE FlatMapKeys(_)
FlatMapKeys(objs) ==
  IF Len(objs) = 0 THEN <<>>
  ELSE ObjectKeys(objs[1]) \o FlatMapKeys(Tail(objs))

AllKeysOf(objs) == SetOrder(FlatMapKeys(objs), <<>>)

CellValueUncollapsed(obj, key) ==
  LET got == ObjectGet(obj, key)
  IN CASE got.type = "undefined" -> [throws |-> FALSE, v |-> NA]
       [] got.type = "string" ->
            [throws |-> FALSE, v |-> IF Len(got.s) = 0 THEN NA ELSE got.s]
       [] got.type = "inherited" -> [throws |-> TRUE, v |-> <<>>]

\* obj[key]?.replace(/\s+/g, "") || "N/A".  A member inherited from
\* Object.prototype is not nullish and has no replace method: the call throws a
\* TypeError.
CellValue(obj, key) ==
  LET got == ObjectGet(obj, key)
      collapsed == RemoveWhitespace(got.s)
  IN CASE got.type = "undefined" -> [throws |-> FALSE, v |-> NA]
       [] got.type = "string" ->
            [throws |-> FALSE, v |-> IF Len(collapsed) = 0 THEN NA ELSE collapsed]
       [] got.type = "inherited" -> [throws |-> TRUE, v |-> <<>>]

\* parsedObjects.map((obj) => ...): one cell per parsed object, in the order
\* of filePaths.
RowCellsReversed(objs, key) ==
  [i \in 1..Len(objs) |-> CellValue(objs[Len(objs) + 1 - i], key)]

RowCells(objs, key) == [i \in 1..Len(objs) |-> CellValue(objs[i], key)]

AllEqualFirstPair(values) == Len(values) < 2 \/ values[1] = values[2]

\* values.every((value) => value === values[0])
AllEqualFirst(values) == \A i \in 1..Len(values) : values[i] = values[1]

\* mismatchDetails.filter((d) => !d.matched)
Unmatched(d) == ~d.matched

CountMatches(details) == Len(details) - Len(SelectSeq(details, Unmatched))

CountMismatches(details) == Len(SelectSeq(details, Unmatched))

(***************************************************************************)
(* The input files of one run.                                             *)
(***************************************************************************)
LineAX == <<"a", "=", "x">>

LineAXY == <<"a", "=", "x", "y">>

LineAXSpY == <<"a", " ", "=", " ", "x", " ", "y">>

LineAEmpty == <<"a", "=", "\r">>

LineANA == <<"a", "=", "N", "/", "A">>

LineOne == <<"1", "=", "x">>

LineBComment == <<"b", "=", "y", " ", "#", "c">>

LineValueOf == ValueOfKey \o <<"=", "x">>

LineSet ==
  {LineAX, LineAXY, LineAXSpY, LineAEmpty, LineANA, LineOne, LineBComment,
   LineValueOf}

KeyA == <<"a">>

KeyB == <<"b">>

KeyC == <<"c">>

KeyOne == <<"1">>

Entry(k, v) == [k |-> k, v |-> v]

\* a: x y
DocFlat == MappingNode(<<Entry(KeyA, StringNode(<<"x", " ", "y">>))>>)

\* b: {c: 1}, "1": true   (as an object: the index key first)
DocNested ==
  MappingNode(<<Entry(KeyOne, BooleanNode(TRUE)),
                Entry(KeyB, MappingNode(<<Entry(KeyC, NumberNode(1))>>))>>)

\* a: [x, y]
DocSequence ==
  MappingNode(<<Entry(KeyA, SequenceNode(<<StringNode(<<"x">>), StringNode(<<"y">>)>>))>>)

\* an empty document
DocEmpty == UndefinedNode

YamlDocs == {DocFlat, DocNested, DocSequence, DocEmpty}

Path(i, ext) == [base |-> i, ext |-> ext]

File(ext, readable, content, loaded) ==
  [ext |-> ext, readable |-> readable, content |-> content, loaded |-> loaded]

NotYaml == [ok |-> FALSE, data |-> UndefinedNode]

PropertiesBodies(n) ==
  {File(".properties", TRUE, Join(ls, <<"\n">>), NotYaml) : ls \in [1..n -> LineSet]}

\* The files that count for n lines: .properties files of n lines; for n = 1
\* also the YAML documents, a file with an unsupported extension, a file that
\* cannot be read and a malformed YAML file.
Bodies(n) ==
  IF n = 1
  THEN PropertiesBodies(1)
         \cup {File(".yml", TRUE, <<>>, [ok |-> TRUE, data |-> d]) : d \in YamlDocs}
         \cup {File(".txt", TRUE, LineAX, NotYaml),
               File(".properties", FALSE, <<>>, NotYaml),
               File(".yaml", TRUE, <<>>, NotYaml)}
  ELSE PropertiesBodies(n)

RECURSIVE FileLists(_, _)
FileLists(n, budget) ==
  IF n = 0 THEN {<<>>}
  ELSE UNION {{<<b>> \o rest : b \in Bodies(c), rest \in FileLists(n - 1, budget - c)} :
                c \in 0..budget}

WithPaths(bodies) ==
  [i \in 1..Len(bodies) |->
     [path |-> Path(i, bodies[i].ext), readable |-> bodies[i].readable,
      content |-> bodies[i].content, loaded |-> bodies[i].loaded]]

(***************************************************************************)
(* The state of one call of compareFileData(filePaths).                    *)
(***************************************************************************)
VARIABLES
  files,            \* the files the paths of filePaths name
  pc,               \* "parse", "compare", "done" (returned) or "threw"
  parsedObjects,    \* the objects parseFile has returned so far
  errorLog,         \* what console.error has been given
  allKeys,          \* the keys of the Set allKeys, in iteration order
  mismatchDetails,  \* the rows pushed so far
  mismatchCount,    \* the count returned
  reads,            \* the paths given to fs.readFileSync, in order
  entryPoint,       \* the function the run starts in
  argv,             \* process.argv.slice(2)
  disk,             \* the files that exist
  filePaths,        \* the paths given to compareFiles
  options,          \* the options given to compareFiles by its caller
  fallback,         \* compareFiles has called itself for the console output
  cpc,              \* "start", "call", "data", "returned", "exited", "crashed"
  stdout,           \* what console.log and console.table have been given
  written,          \* what fs.writeFileSync has been given
  exit,             \* the code given to process.exit, "none" before
  calls,            \* the number of calls of compareFiles
  returned          \* what checkIfAllValuesMatch and getMismatchFields returned

\* The state of the caller of compareFileData.
cliVars ==
  <<entryPoint, argv, disk, filePaths, options, fallback, cpc, stdout, written, exit, calls,
    returned>>

vars ==
  <<files, pc, parsedObjects, errorLog, allKeys, mismatchDetails, mismatchCount,
    reads, cliVars>>

\* A value that is undefined or null.
Absent == "<absent>"

Options(format, outputFile) == [format |-> format, outputFile |-> outputFile]

\* options = {}
DefaultOptions == Options(Absent, Absent)

\* Nothing returned yet.
NoResult ==
  [allMatch |-> FALSE, fields |-> <<>>, threw |-> FALSE,
   data |-> [mismatchCount |-> 0, mismatchDetails |-> <<>>]]

\* compareFileData called by itself: no command line, no caller.
NoCommandLine ==
  /\ returned = NoResult
  /\ entryPoint = "compareFileData"
  /\ argv = <<>>
  /\ disk = files
  /\ filePaths = [i \in 1..Len(files) |-> files[i].path]
  /\ options = DefaultOptions
  /\ fallback = FALSE
  /\ cpc = "data"
  /\ stdout = <<>>
  /\ written = <<>>
  /\ exit = "none"
  /\ calls = 0

Init ==
  /\ \E n \in 2..MaxFiles : \E bodies \in FileLists(n, MaxTotalLines) :
        files = WithPaths(bodies)
  /\ pc = "parse"
  /\ parsedObjects = <<>>
  /\ errorLog = <<>>
  /\ allKeys = <<>>
  /\ mismatchDetails = <<>>
  /\ mismatchCount = 0
  /\ reads = <<>>
  /\ NoCommandLine

\* filePaths.map(parseFile): the next file is parsed.  An exception that
\* leaves parseFile leaves compareFileData.
ParseNext ==
  /\ pc = "parse"
  /\ Len(parsedObjects) < Len(files)
  /\ LET f == files[Len(parsedObjects) + 1]
         r == ParseFile(f)
     IN /\ errorLog' = errorLog \o r.log
        /\ reads' = IF r.read THEN Append(reads, f.path) ELSE reads
        /\ IF r.raised
           THEN pc' = "threw" /\ UNCHANGED parsedObjects
           ELSE parsedObjects' = Append(parsedObjects, r.obj) /\ UNCHANGED pc
  /\ UNCHANGED <<files, allKeys, mismatchDetails, mismatchCount, cliVars>>

\* new Set(parsedObjects.flatMap(...))
CollectKeys ==
  /\ pc = "parse"
  /\ Len(parsedObjects) = Len(files)
  /\ allKeys' = AllKeysOf(parsedObjects)
  /\ pc' = "compare"
  /\ UNCHANGED <<files, parsedObjects, errorLog, mismatchDetails, mismatchCount, reads, cliVars>>

\* One call of the allKeys.forEach callback.
CompareKey ==
  /\ pc = "compare"
  /\ Len(mismatchDetails) < Len(allKeys)
  /\ LET key == allKeys[Len(mismatchDetails) + 1]
         cells == RowCells(parsedObjects, key)
         values == [i \in 1..Len(cells) |-> cells[i].v]
     IN IF \E i \in 1..Len(cells) : cells[i].throws
        THEN /\ pc' = "threw"
             /\ UNCHANGED mismatchDetails
        ELSE /\ mismatchDetails' =
                  Append(mismatchDetails,
                         [key |-> key, values |-> values, matched |-> AllEqualFirst(values)])
             /\ UNCHANGED pc
  /\ UNCHANGED <<files, parsedObjects, errorLog, allKeys, mismatchCount, reads, cliVars>>

\* The count of the mismatches and the return.
Return ==
  /\ pc = "compare"
  /\ Len(mismatchDetails) = Len(allKeys)
  /\ mismatchCount' = CountMismatches(mismatchDetails)
  /\ pc' = "done"
  /\ UNCHANGED <<files, parsedObjects, errorLog, allKeys, mismatchDetails, reads, cliVars>>

Next == ParseNext \/ CollectKeys \/ CompareKey \/ Return

Spec == Init /\ [][Next]_vars

(***************************************************************************)
(* The parsers on one file: compareFileData([filePath]) for every file of  *)
(* a wider set, so that every parser rule meets every shape of line and of *)
(* decoded document.                                                       *)
(***************************************************************************)
ContentChars == {"a", "=", "#", " ", "\n"}

\* The strings over ContentChars of length n.
RECURSIVE ContentsOfLen(_)
ContentsOfLen(n) ==
  IF n = 0 THEN {<<>>}
  ELSE {Append(c, ch) : c \in ContentsOfLen(n - 1), ch \in ContentChars}

LineProto == ProtoKey \o <<"=", "x">>

PropertiesContents ==
  UNION {ContentsOfLen(n) : n \in 0..MaxContentLen}
    \cup {LineValueOf, LineProto,
          Join(<<LineOne, LineAXSpY>>, <<"\r", "\n">>),
          Join(<<LineAX, LineAXY>>, <<"\n">>),
          Join(<<LineAXY, LineAEmpty>>, <<"\n">>),
          Join(<<LineBComment, LineAX>>, <<"\n">>)}

KeyDotted == <<"a", ".", "b">>

KeyEmpty == <<>>

YamlKeys == {KeyA, KeyDotted, KeyEmpty}

YamlLeaves ==
  {StringNode(<<"x">>), NumberNode(7), NullNode,
   SequenceNode(<<StringNode(<<"x">>), NumberNode(1)>>)}

\* The values nested at most d mappings deep.
RECURSIVE YamlValues(_)
YamlValues(d) ==
  IF d = 0 THEN YamlLeaves
  ELSE YamlLeaves
         \cup {MappingNode(<<>>)}
         \cup {MappingNode(<<Entry(k, v)>>) : k \in YamlKeys, v \in YamlValues(d - 1)}

\* The documents whose root is a mapping of one or two entries.
YamlMappings(d) ==
  {MappingNode(<<Entry(k, v)>>) : k \in YamlKeys, v \in YamlValues(d - 1)}
    \cup {MappingNode(<<Entry(ks[1], v1), Entry(ks[2], v2)>>) :
            ks \in {p \in YamlKeys \X YamlKeys : p[1] # p[2]},
            v1 \in YamlValues(d - 1), v2 \in YamlValues(d - 1)}

\* - x
\* - 1
DocRootSequence == SequenceNode(<<StringNode(<<"x">>), NumberNode(1)>>)

\* a document that is one plain scalar
DocRootString == StringNode(<<"x", "y">>)

\* __proto__: x
DocProto == MappingNode(<<Entry(ProtoKey, StringNode(<<"x">>))>>)

ParserYamlDocs ==
  YamlMappings(MaxYamlDepth)
    \cup YamlDocs
    \cup {DocRootSequence, DocRootString, DocProto, NullNode, NumberNode(7)}

ParserBodies ==
  {File(ext, TRUE, c, NotYaml) : ext \in {".properties"}, c \in PropertiesContents}
    \cup {File(".yml", TRUE, <<>>, [ok |-> TRUE, data |-> d]) : d \in ParserYamlDocs}
    \cup {File(ext, TRUE, LineAX, [ok |-> TRUE, data |-> DocFlat]) :
            ext \in {".PROPERTIES", ".Properties", ".yaml", ".YML", ".Yaml", ".YAML",
                     ".txt", ".TXT", ".json", ""}}
    \cup {File(ext, FALSE, <<>>, NotYaml) : ext \in {".properties", ".yml", ".yaml", ".txt"}}
    \cup {File(ext, TRUE, LineAX, NotYaml) : ext \in {".yml", ".yaml"}}

ParserInit ==
  /\ \E b \in ParserBodies : files = WithPaths(<<b>>)
  /\ pc = "parse"
  /\ parsedObjects = <<>>
  /\ errorLog = <<>>
  /\ allKeys = <<>>
  /\ mismatchDetails = <<>>
  /\ mismatchCount = 0
  /\ reads = <<>>
  /\ NoCommandLine

ParserSpec == ParserInit /\ [][Next]_vars

(***************************************************************************)
(* The renderings.                                                         *)
(***************************************************************************)
\* One row of the table: Key, Matched and the values in file order (the
\* columns File 1, File 2, ...).
TableRow(d) ==
  [Key |-> d.key, Matched |-> IF d.matched THEN "Yes" ELSE "No", values |-> d.values]

MismatchedKeysAndMatched(details) == [i \in 1..Len(details) |-> details[i].key]

\* mismatchDetails.filter((detail) => !detail.matched).map((detail) => detail.key)
MismatchedKeys(details) ==
  LET unmatched == SelectSeq(details, Unmatched)
  IN [i \in 1..Len(unmatched) |-> unmatched[i].key]

\* A document of generateHtmlReport or of generateMarkdownReport: the names
\* of the files, the rows of the table and the summary (which sentence, the
\* count it states and the keys it names).
Report(kind, names, rows, summary, count, keys) ==
  [kind |-> kind, fileNames |-> names, rows |-> rows, summary |-> summary,
   count |-> count, keys |-> keys]

NoReport == Report("none", <<>>, <<>>, "none", 0, <<>>)

SummaryOfMismatches(count) == "mismatches"

\* mismatchCount === 0 decides the sentence of the summary.
SummaryOf(count) == IF count = 0 THEN "all-match" ELSE "mismatches"

\* One call of console.log or console.table.
Out(kind, rows, count, keys, file, doc) ==
  [kind |-> kind, rows |-> rows, count |-> count, keys |-> keys, file |-> file,
   doc |-> doc]

Log(kind) == Out(kind, <<>>, 0, <<>>, Absent, NoReport)

\* The lines of the summary of the console output.
ConsoleSummary(data) ==
  IF data.mismatchCount = 0
  THEN <<Log("all-match")>>
  ELSE <<Out("mismatch-count", <<>>, data.mismatchCount, <<>>, Absent, NoReport),
         Out("mismatched-keys", <<>>, 0, MismatchedKeys(data.mismatchDetails), Absent,
             NoReport)>>

ConsoleRenderingHighlightingAll(data) ==
  LET rows == [i \in 1..Len(data.mismatchDetails) |-> TableRow(data.mismatchDetails[i])]
  IN <<Log("header"), Out("table", rows, 0, <<>>, Absent, NoReport),
       Log("highlight-title")>>
       \o [i \in 1..Len(rows) |-> Out("highlight", <<rows[i]>>, 0, <<>>, Absent, NoReport)]
       \o <<Log("summary-title")>>
       \o ConsoleSummary(data)

\* The console branch of compareFiles: header, table, highlighted rows and
\* summary.
ConsoleRendering(data) ==
  LET rows == [i \in 1..Len(data.mismatchDetails) |-> TableRow(data.mismatchDetails[i])]
      unmatched == SelectSeq(data.mismatchDetails, Unmatched)
  IN <<Log("header"), Out("table", rows, 0, <<>>, Absent, NoReport),
       Log("highlight-title")>>
       \o [i \in 1..Len(unmatched) |->
             Out("highlight", <<TableRow(unmatched[i])>>, 0, <<>>, Absent, NoReport)]
       \o <<Log("summary-title")>>
       \o ConsoleSummary(data)

\* One <tr> of the HTML table: its class, the key, Yes or No, and one <td>
\* per value, N/A in <em>.
HtmlRow(d) ==
  [class |-> IF d.matched THEN "matched" ELSE "mismatch",
   Key |-> d.key,
   Matched |-> IF d.matched THEN "Yes" ELSE "No",
   values |-> [i \in 1..Len(d.values) |->
                 [class |-> IF d.matched THEN "" ELSE "value-mismatch",
                  text |-> d.values[i],
                  emphasis |-> d.values[i] = NA]]]

\* One line of the Markdown table: the key, Yes or No, and the values, N/A
\* between asterisks.
MarkdownRow(d) ==
  [Key |-> d.key,
   Matched |-> IF d.matched THEN "Yes" ELSE "No",
   values |-> [i \in 1..Len(d.values) |->
                 [text |-> d.values[i], emphasis |-> d.values[i] = NA]]]

GenerateHtmlReportRowsReversed(paths, data) ==
  Report("html", paths,
         [i \in 1..Len(data.mismatchDetails) |->
            HtmlRow(data.mismatchDetails[Len(data.mismatchDetails) + 1 - i])],
         SummaryOf(data.mismatchCount),
         data.mismatchCount,
         IF data.mismatchCount = 0 THEN <<>> ELSE MismatchedKeys(data.mismatchDetails))

\* The document of generateHtmlReport: the rows by mismatchDetails.forEach,
\* then the summary (count 0 stands for "All properties match across all
\* files!"; keys are the mismatched keys, joined by ", " in the document).
GenerateHtmlReport(paths, data) ==
  Report("html", paths,
         [i \in 1..Len(data.mismatchDetails) |-> HtmlRow(data.mismatchDetails[i])],
         SummaryOf(data.mismatchCount),
         data.mismatchCount,
         IF data.mismatchCount = 0 THEN <<>> ELSE MismatchedKeys(data.mismatchDetails))

GenerateMarkdownReport(paths, data) ==
  Report("markdown", paths,
         [i \in 1..Len(data.mismatchDetails) |-> MarkdownRow(data.mismatchDetails[i])],
         SummaryOf(data.mismatchCount),
         data.mismatchCount,
         IF data.mismatchCount = 0 THEN <<>> ELSE MismatchedKeys(data.mismatchDetails))

\* value || default, and if (value), for a string that may be absent
Falsy(value) == value = Absent \/ value = ""

ReportOutputAlsoPrinted(outputFile, report) ==
  IF ~Falsy(outputFile)
  THEN [written |-> <<[file |-> outputFile, doc |-> report]>>,
        stdout |-> <<Out("report-saved", <<>>, 0, <<>>, outputFile, NoReport),
                     Out("document", <<>>, 0, <<>>, Absent, report)>>]
  ELSE [written |-> <<>>,
        stdout |-> <<Out("document", <<>>, 0, <<>>, Absent, report)>>]

\* The html and markdown branches of compareFiles: what is written and what
\* is printed.  fs.writeFileSync is taken to succeed.
ReportOutput(outputFile, report) ==
  IF ~Falsy(outputFile)
  THEN [written |-> <<[file |-> outputFile, doc |-> report]>>,
        stdout |-> <<Out("report-saved", <<>>, 0, <<>>, outputFile, NoReport)>>]
  ELSE [written |-> <<>>,
        stdout |-> <<Out("document", <<>>, 0, <<>>, Absent, report)>>]

(***************************************************************************)
(* compareFiles, run and the program of cli.js.                            *)
(***************************************************************************)
MaxPaths == 2

\* The path of a file that does not exist.
MissingPath == Path(3, ".properties")

\* A string that is not the name of a file.
NoPath == Path(0, "")

FileNames == {"file1", "file2", "file3"}

\* path.resolve(name)
Resolve(name) ==
  CASE name = "file1" -> disk[1].path
    [] name = "file2" -> disk[2].path
    [] name = "file3" -> MissingPath
    [] OTHER -> NoPath

\* fs.existsSync(path)
ExistsSync(path) == \E i \in 1..Len(disk) : disk[i].path = path

\* The file a path names; reading a path that names no file fails.
FileAt(path) ==
  IF ExistsSync(path)
  THEN disk[CHOOSE i \in 1..Len(disk) : disk[i].path = path]
  ELSE [path |-> path, readable |-> FALSE, content |-> <<>>, loaded |-> NotYaml]

FallbackOptionsHtml == Options("html", Absent)

\* compareFiles(filePaths): the call compareFiles makes itself has options = {}.
FallbackOptions == DefaultOptions

\* The options of the running call of compareFiles.
CurrentOptions == IF fallback THEN FallbackOptions ELSE options

\* const format = options.format || "console"
FormatOf(o) == IF Falsy(o.format) THEN "console" ELSE o.format

ComparisonData == [mismatchCount |-> mismatchCount, mismatchDetails |-> mismatchDetails]

\* The loop of run over args.
RECURSIVE RunParseArgs(_, _, _)
RunParseArgs(args, opts, paths) ==
  IF Len(args) = 0 THEN [options |-> opts, filePaths |-> paths]
  ELSE IF args[1] \in {"--format", "-f"}
  THEN IF Len(args) >= 2
       THEN RunParseArgs(SubSeq(args, 3, Len(args)),
                         [opts EXCEPT !.format = ToLowerCase(args[2])], paths)
       ELSE RunParseArgs(Tail(args), opts, paths)
  ELSE IF args[1] \in {"--output", "-o"}
  THEN IF Len(args) >= 2
       THEN RunParseArgs(SubSeq(args, 3, Len(args)),
                         [opts EXCEPT !.outputFile = args[2]], paths)
       ELSE RunParseArgs(Tail(args), opts, paths)
  ELSE RunParseArgs(Tail(args), opts, Append(paths, Resolve(args[1])))

Missing(paths) == SelectSeq(paths, LAMBDA fp : ~ExistsSync(fp))

RunExitCodeOfThreePaths(paths) ==
  IF Len(paths) = 0 THEN "1"
  ELSE IF Len(paths) <= 2 THEN "1"
  ELSE IF Len(Missing(paths)) > 0 THEN "1"
  ELSE "none"

\* The checks of run: the code it gives to process.exit, "none" when it goes
\* on to compareFiles.
RunExitCode(paths) ==
  IF Len(paths) = 0 THEN "1"
  ELSE IF Len(paths) = 1 THEN "1"
  ELSE IF Len(Missing(paths)) > 0 THEN "1"
  ELSE "none"

\* What run gives to console.error before process.exit(1); of the paths that
\* do not exist, the first stands for missing.join(", ").
RunMessages(paths) ==
  IF Len(paths) = 0 THEN <<LogEntry("usage", NoPath, "none")>>
  ELSE IF Len(paths) = 1 THEN <<LogEntry("need-two-paths", NoPath, "none")>>
  ELSE <<LogEntry("do-not-exist",
                  IF Len(Missing(paths)) > 0 THEN Missing(paths)[1] ELSE NoPath,
                  "none")>>

\* program.parse(process.argv) for the options -f/--format <format> and
\* -o/--output <path> and the arguments <files...>: an option without its
\* value and a command line without a file are errors of commander.
RECURSIVE CommanderParse(_, _, _)
CommanderParse(args, opts, names) ==
  IF Len(args) = 0
  THEN [error |-> Len(names) = 0, options |-> opts, files |-> names]
  ELSE IF args[1] \in {"--format", "-f"}
  THEN IF Len(args) >= 2
       THEN CommanderParse(SubSeq(args, 3, Len(args)),
                           [opts EXCEPT !.format = args[2]], names)
       ELSE [error |-> TRUE, options |-> opts, files |-> names]
  ELSE IF args[1] \in {"--output", "-o"}
  THEN IF Len(args) >= 2
       THEN CommanderParse(SubSeq(args, 3, Len(args)),
                           [opts EXCEPT !.outputFile = args[2]], names)
       ELSE [error |-> TRUE, options |-> opts, files |-> names]
  ELSE CommanderParse(Tail(args), opts, Append(names, args[1]))

\* run, up to its call of compareFiles.
Run ==
  /\ UNCHANGED returned
  /\ entryPoint = "run"
  /\ cpc = "start"
  /\ LET parsed == RunParseArgs(argv, Options("console", Absent), <<>>)
         code == RunExitCode(parsed.filePaths)
     IN /\ filePaths' = parsed.filePaths
        /\ options' = parsed.options
        /\ IF code = "none"
           THEN /\ cpc' = "call"
                /\ UNCHANGED <<errorLog, exit>>
           ELSE /\ errorLog' = errorLog \o RunMessages(parsed.filePaths)
                /\ exit' = code
                /\ cpc' = "exited"
  /\ UNCHANGED <<files, pc, parsedObjects, allKeys, mismatchDetails, mismatchCount,
                 reads, entryPoint, argv, disk, fallback, stdout, written, calls>>

\* cli.js without arguments: the usage and process.exit(0).
CliNoArguments ==
  /\ UNCHANGED returned
  /\ entryPoint = "cli"
  /\ cpc = "start"
  /\ Len(argv) = 0
  /\ stdout' = stdout \o <<Log("version"), Log("usage")>>
  /\ exit' = "0"
  /\ cpc' = "exited"
  /\ UNCHANGED <<files, pc, parsedObjects, errorLog, allKeys, mismatchDetails,
                 mismatchCount, reads, entryPoint, argv, disk, filePaths, options,
                 fallback, written, calls>>

\* cli.js with arguments: program.parse and the action, up to its call of
\* compareFiles.  program.help() is commander's: it prints the help and ends
\* the process with code 0; where it returns, process.exit(1) follows.
CliAction ==
  /\ UNCHANGED returned
  /\ entryPoint = "cli"
  /\ cpc = "start"
  /\ Len(argv) > 0
  /\ LET parsed == CommanderParse(argv, DefaultOptions, <<>>)
         resolved == [i \in 1..Len(parsed.files) |-> Resolve(parsed.files[i])]
     IN IF parsed.error
        THEN /\ errorLog' = Append(errorLog, LogEntry("commander-error", NoPath, "none"))
             /\ exit' = "1"
             /\ cpc' = "exited"
             /\ UNCHANGED <<filePaths, options, stdout>>
        ELSE IF Len(parsed.files) < 2
        THEN /\ errorLog' = Append(errorLog, LogEntry("need-two-files", NoPath, "none"))
             /\ stdout' = Append(stdout, Log("help"))
             /\ \E code \in {"0", "1"} : exit' = code
             /\ cpc' = "exited"
             /\ filePaths' = resolved
             /\ UNCHANGED options
        ELSE /\ filePaths' = resolved
             /\ options' = Options(FormatOf(parsed.options), parsed.options.outputFile)
             /\ cpc' = "call"
             /\ UNCHANGED <<errorLog, stdout, exit>>
  /\ UNCHANGED <<files, pc, parsedObjects, allKeys, mismatchDetails, mismatchCount,
                 reads, entryPoint, argv, disk, fallback, written, calls>>

\* compareFiles is entered and calls compareFileData(filePaths).
CallCompareFiles ==
  /\ UNCHANGED returned
  /\ cpc = "call"
  /\ calls' = calls + 1
  /\ files' = [i \in 1..Len(filePaths) |-> FileAt(filePaths[i])]
  /\ pc' = "parse"
  /\ parsedObjects' = <<>>
  /\ allKeys' = <<>>
  /\ mismatchDetails' = <<>>
  /\ mismatchCount' = 0
  /\ cpc' = "data"
  /\ UNCHANGED <<errorLog, reads, entryPoint, argv, disk, filePaths, options, fallback,
                 stdout, written, exit>>

\* The console branch of compareFiles.
RenderConsole ==
  /\ UNCHANGED returned
  /\ cpc = "data"
  /\ pc = "done"
  /\ FormatOf(CurrentOptions) = "console"
  /\ stdout' = stdout \o ConsoleRendering(ComparisonData)
  /\ cpc' = "returned"
  /\ UNCHANGED <<files, pc, parsedObjects, errorLog, allKeys, mismatchDetails,
                 mismatchCount, reads, entryPoint, argv, disk, filePaths, options,
                 fallback, written, exit, calls>>

\* The html branch and the markdown branch of compareFiles.
RenderReport ==
  /\ UNCHANGED returned
  /\ cpc = "data"
  /\ pc = "done"
  /\ FormatOf(CurrentOptions) \in {"html", "markdown"}
  /\ LET report == IF FormatOf(CurrentOptions) = "html"
                   THEN GenerateHtmlReport(filePaths, ComparisonData)
                   ELSE GenerateMarkdownReport(filePaths, ComparisonData)
         out == ReportOutput(CurrentOptions.outputFile, report)
     IN /\ written' = written \o out.written
        /\ stdout' = stdout \o out.stdout
  /\ cpc' = "returned"
  /\ UNCHANGED <<files, pc, parsedObjects, errorLog, allKeys, mismatchDetails,
                 mismatchCount, reads, entryPoint, argv, disk, filePaths, options,
                 fallback, exit, calls>>

\* The last branch of compareFiles: the warning, then compareFiles(filePaths).
Fallback ==
  /\ UNCHANGED returned
  /\ cpc = "data"
  /\ pc = "done"
  /\ FormatOf(CurrentOptions) \notin {"console", "html", "markdown"}
  /\ errorLog' =
       Append(errorLog, LogEntry("unsupported-format", NoPath, FormatOf(CurrentOptions)))
  /\ fallback' = TRUE
  /\ cpc' = "call"
  /\ UNCHANGED <<files, pc, parsedObjects, allKeys, mismatchDetails, mismatchCount,
                 reads, entryPoint, argv, disk, filePaths, options, stdout, written,
                 exit, calls>>

\* An exception leaves compareFiles: the action of cli.js catches it and
\* gives 1 to process.exit; nothing else catches it.
Uncaught ==
  /\ UNCHANGED returned
  /\ cpc = "data"
  /\ pc = "threw"
  /\ IF entryPoint = "cli"
     THEN /\ errorLog' = Append(errorLog, LogEntry("Error:", NoPath, "TypeError"))
          /\ exit' = "1"
          /\ cpc' = "exited"
     ELSE /\ cpc' = "crashed"
          /\ UNCHANGED <<errorLog, exit>>
  /\ UNCHANGED <<files, pc, parsedObjects, allKeys, mismatchDetails, mismatchCount,
                 reads, entryPoint, argv, disk, filePaths, options, fallback, stdout,
                 written, calls>>

\* The files of the runs from the command line.
TwoLines == Join(<<LineAX, LineBComment>>, <<"\n">>)

DiskBodies ==
  {File(".properties", TRUE, LineAX, NotYaml),
   File(".properties", TRUE, TwoLines, NotYaml),
   File(".properties", TRUE, LineValueOf, NotYaml),
   File(".yml", TRUE, <<>>, [ok |-> TRUE, data |-> DocFlat]),
   File(".txt", TRUE, LineAX, NotYaml)}

Disks == {WithPaths(<<b1, b2>>) : b1 \in DiskBodies, b2 \in DiskBodies}

FormatWords == {"console", "html", "HTML", "markdown", "xml", ""}

OptionArgs ==
  {<<>>, <<"-f">>, <<"-o", "out">>}
    \cup {<<f, w>> : f \in {"-f", "--format"}, w \in FormatWords}
    \cup {<<"-f", w, o, "out">> : w \in {"html", "markdown", "xml"}, o \in {"-o", "--output"}}

RECURSIVE FileArgs(_)
FileArgs(n) ==
  IF n = 0 THEN {<<>>}
  ELSE FileArgs(n - 1)
         \cup {Append(a, name) : a \in {b \in FileArgs(n - 1) : Len(b) = n - 1},
                                name \in FileNames}

CommandLines ==
  {o \o a : o \in OptionArgs, a \in FileArgs(MaxPaths)}
    \cup {a \o o : o \in OptionArgs, a \in FileArgs(MaxPaths)}

\* The options of a call of compareFiles by a program that imports it.
OptionChoices ==
  {Options(f, o) : f \in FormatWords \cup {Absent}, o \in {Absent, "out"}}

PathLists == UNION {[1..n -> {1, 2, 3}] : n \in 2..MaxPaths}

CliInit ==
  /\ returned = NoResult
  /\ disk \in Disks
  /\ entryPoint \in {"run", "cli", "compareFiles"}
  /\ IF entryPoint = "compareFiles"
     THEN /\ argv = <<>>
          /\ \E ps \in PathLists :
                filePaths = [i \in 1..Len(ps) |->
                               IF ps[i] = 3 THEN MissingPath ELSE disk[ps[i]].path]
          /\ options \in OptionChoices
          /\ cpc = "call"
     ELSE /\ argv \in CommandLines
          /\ filePaths = <<>>
          /\ options = DefaultOptions
          /\ cpc = "start"
  /\ files = <<>>
  /\ pc = "idle"
  /\ parsedObjects = <<>>
  /\ errorLog = <<>>
  /\ allKeys = <<>>
  /\ mismatchDetails = <<>>
  /\ mismatchCount = 0
  /\ reads = <<>>
  /\ fallback = FALSE
  /\ stdout = <<>>
  /\ written = <<>>
  /\ exit = "none"
  /\ calls = 0

CliNext ==
  \/ Run
  \/ CliNoArguments
  \/ CliAction
  \/ CallCompareFiles
  \/ ParseNext
  \/ CollectKeys
  \/ CompareKey
  \/ Return
  \/ RenderConsole
  \/ RenderReport
  \/ Fallback
  \/ Uncaught

CliSpec == CliInit /\ [][CliNext]_vars

(***************************************************************************)
(* The three renderings of one list of files: compareFiles called with the *)
(* format console, then html, then markdown, without an output file.       *)
(***************************************************************************)
NextFormat(format) == IF format = "console" THEN "html" ELSE "markdown"

\* The caller calls compareFiles again, with the next format.
CallNextFormat ==
  /\ UNCHANGED returned
  /\ entryPoint = "allFormats"
  /\ cpc = "returned"
  /\ options.format \in {"console", "html"}
  /\ options' = Options(NextFormat(options.format), Absent)
  /\ cpc' = "call"
  /\ UNCHANGED <<files, pc, parsedObjects, errorLog, allKeys, mismatchDetails,
                 mismatchCount, reads, entryPoint, argv, disk, filePaths, fallback,
                 stdout, written, exit, calls>>

ReportInit ==
  /\ returned = NoResult
  /\ \E bodies \in FileLists(2, MaxTotalLines) : disk = WithPaths(bodies)
  /\ entryPoint = "allFormats"
  /\ argv = <<>>
  /\ filePaths = [i \in 1..Len(disk) |-> disk[i].path]
  /\ options = Options("console", Absent)
  /\ cpc = "call"
  /\ files = <<>>
  /\ pc = "idle"
  /\ parsedObjects = <<>>
  /\ errorLog = <<>>
  /\ allKeys = <<>>
  /\ mismatchDetails = <<>>
  /\ mismatchCount = 0
  /\ reads = <<>>
  /\ fallback = FALSE
  /\ stdout = <<>>
  /\ written = <<>>
  /\ exit = "none"
  /\ calls = 0

ReportNext ==
  \/ CallCompareFiles
  \/ ParseNext
  \/ CollectKeys
  \/ CompareKey
  \/ Return
  \/ RenderConsole
  \/ RenderReport
  \/ CallNextFormat
  \/ Uncaught

ReportSpec == ReportInit /\ [][ReportNext]_vars

(***************************************************************************)
(* compareFiles called by a program on the files of a disk.                *)
(***************************************************************************)
\* No call yet.
CompareFilesInit ==
  /\ entryPoint = "compareFiles"
  /\ cpc = "uncalled"
  /\ disk = <<>>
  /\ filePaths = <<>>
  /\ options = DefaultOptions
  /\ argv = <<>>
  /\ files = <<>>
  /\ pc = "idle"
  /\ parsedObjects = <<>>
  /\ errorLog = <<>>
  /\ allKeys = <<>>
  /\ mismatchDetails = <<>>
  /\ mismatchCount = 0
  /\ reads = <<>>
  /\ fallback = FALSE
  /\ stdout = <<>>
  /\ written = <<>>
  /\ exit = "none"
  /\ calls = 0
  /\ returned = NoResult

\* The program calls compareFiles(filePaths, options) on the files of a disk.
CompareFilesCalled ==
  /\ cpc = "uncalled"
  /\ disk' \in Disks
  /\ \E ps \in PathLists :
        filePaths' = [i \in 1..Len(ps) |->
                        IF ps[i] = 3 THEN MissingPath ELSE disk'[ps[i]].path]
  /\ options' \in OptionChoices
  /\ cpc' = "call"
  /\ UNCHANGED <<files, pc, parsedObjects, errorLog, allKeys, mismatchDetails,
                 mismatchCount, reads, entryPoint, argv, fallback, stdout, written,
                 exit, calls, returned>>

CompareFilesNext ==
  \/ CompareFilesCalled
  \/ CallCompareFiles
  \/ ParseNext
  \/ CollectKeys
  \/ CompareKey
  \/ Return
  \/ RenderConsole
  \/ RenderReport
  \/ Fallback
  \/ Uncaught

CompareFilesSpec == CompareFilesInit /\ [][CompareFilesNext]_vars

(***************************************************************************)
(* compareFileData(filePaths), then compareFileData of a permutation of    *)
(* filePaths.                                                              *)
(***************************************************************************)
\* The caller keeps what the first call gave and calls compareFileData on
\* the same files in another order.
CallPermuted ==
  /\ cpc = "first"
  /\ pc \in {"done", "threw"}
  /\ returned' = [returned EXCEPT !.threw = (pc = "threw"), !.data = ComparisonData]
  /\ \E p \in Permutations(1..Len(files)) : files' = [i \in 1..Len(files) |-> files[p[i]]]
  /\ pc' = "parse"
  /\ parsedObjects' = <<>>
  /\ allKeys' = <<>>
  /\ mismatchDetails' = <<>>
  /\ mismatchCount' = 0
  /\ cpc' = "permuted"
  /\ UNCHANGED <<errorLog, reads, entryPoint, argv, disk, filePaths, options, fallback,
                 stdout, written, exit, calls>>

PermutationInit ==
  /\ \E n \in 2..3 : \E bodies \in FileLists(n, MaxTotalLines) :
        files = WithPaths(bodies)
  /\ disk = files
  /\ filePaths = [i \in 1..Len(files) |-> files[i].path]
  /\ entryPoint = "permutations"
  /\ cpc = "first"
  /\ pc = "parse"
  /\ argv = <<>>
  /\ options = DefaultOptions
  /\ parsedObjects = <<>>
  /\ errorLog = <<>>
  /\ allKeys = <<>>
  /\ mismatchDetails = <<>>
  /\ mismatchCount = 0
  /\ reads = <<>>
  /\ fallback = FALSE
  /\ stdout = <<>>
  /\ written = <<>>
  /\ exit = "none"
  /\ calls = 0
  /\ returned = NoResult

PermutationNext ==
  \/ ParseNext
  \/ CollectKeys
  \/ CompareKey
  \/ Return
  \/ CallPermuted

PermutationSpec == PermutationInit /\ [][PermutationNext]_vars

(***************************************************************************)
(* checkIfAllValuesMatch(filePaths), then getMismatchFields(filePaths),    *)
(* each with its own call of compareFileData.                              *)
(***************************************************************************)
AllValuesMatchNever(data) == data.mismatchCount # 0

\* return mismatchCount === 0
AllValuesMatch(data) == data.mismatchCount = 0

\* checkIfAllValuesMatch returns.
CheckIfAllValuesMatch ==
  /\ cpc = "checkIfAllValuesMatch"
  /\ pc = "done"
  /\ returned' = [returned EXCEPT !.allMatch = AllValuesMatch(ComparisonData)]
  /\ cpc' = "checked"
  /\ UNCHANGED <<files, pc, parsedObjects, errorLog, allKeys, mismatchDetails,
                 mismatchCount, reads, entryPoint, argv, disk, filePaths, options,
                 fallback, stdout, written, exit, calls>>

\* getMismatchFields is called and calls compareFileData(filePaths).
CallGetMismatchFields ==
  /\ cpc = "checked"
  /\ pc' = "parse"
  /\ parsedObjects' = <<>>
  /\ allKeys' = <<>>
  /\ mismatchDetails' = <<>>
  /\ mismatchCount' = 0
  /\ cpc' = "getMismatchFields"
  /\ UNCHANGED <<files, errorLog, reads, entryPoint, argv, disk, filePaths, options,
                 fallback, stdout, written, exit, calls, returned>>

\* getMismatchFields returns.
GetMismatchFields ==
  /\ cpc = "getMismatchFields"
  /\ pc = "done"
  /\ returned' = [returned EXCEPT !.fields = MismatchedKeys(mismatchDetails)]
  /\ cpc' = "both-returned"
  /\ UNCHANGED <<files, pc, parsedObjects, errorLog, allKeys, mismatchDetails,
                 mismatchCount, reads, entryPoint, argv, disk, filePaths, options,
                 fallback, stdout, written, exit, calls>>

\* The lists of no file, of one file and of two files.
HelperInit ==
  /\ \E n \in 0..2 : \E bodies \in FileLists(n, MaxTotalLines) :
        files = WithPaths(bodies)
  /\ disk = files
  /\ filePaths = [i \in 1..Len(files) |-> files[i].path]
  /\ entryPoint = "helpers"
  /\ cpc = "checkIfAllValuesMatch"
  /\ pc = "parse"
  /\ argv = <<>>
  /\ options = DefaultOptions
  /\ parsedObjects = <<>>
  /\ errorLog = <<>>
  /\ allKeys = <<>>
  /\ mismatchDetails = <<>>
  /\ mismatchCount = 0
  /\ reads = <<>>
  /\ fallback = FALSE
  /\ stdout = <<>>
  /\ written = <<>>
  /\ exit = "none"
  /\ calls = 0
  /\ returned = NoResult

HelperNext ==
  \/ ParseNext
  \/ CollectKeys
  \/ CompareKey
  \/ Return
  \/ CheckIfAllValuesMatch
  \/ CallGetMismatchFields
  \/ GetMismatchFields

HelperSpec == HelperInit /\ [][HelperNext]_vars

(***************************************************************************)
(* Properties of compareFileData.                                          *)
(***************************************************************************)
FileIndexes == 1..Len(files)

RowIndexes == 1..Len(mismatchDetails)

\* The key is a key of the parsed map of file i.
Present(i, key) == HasOwn(parsedObjects[i], key)

KeysOfFile(i) == {parsedObjects[i][j].k : j \in 1..Len(parsedObjects[i])}

UnionOfKeys == UNION {KeysOfFile(i) : i \in 1..Len(parsedObjects)}

RowsOfKey(key) == {r \in RowIndexes : mismatchDetails[r].key = key}

RowKeys == [r \in RowIndexes |-> mismatchDetails[r].key]

OnlyIn(i, key) ==
  /\ Present(i, key)
  /\ \A j \in FileIndexes \ {i} : ~Present(j, key)

\* C1: a key present in exactly one file's parsed map appears in exactly one
\* row, that row holds "N/A" in the slot of every other file, and its matched
\* flag is false, whatever the value of the key.
C1_KeyUnionCompleteness ==
  pc = "done" =>
    \A i \in FileIndexes : \A key \in KeysOfFile(i) :
      OnlyIn(i, key) =>
        /\ Cardinality(RowsOfKey(key)) = 1
        /\ \A r \in RowsOfKey(key) :
              /\ \A j \in FileIndexes \ {i} : mismatchDetails[r].values[j] = NA
              /\ ~mismatchDetails[r].matched

\* C2: in every row, values[i] is "N/A" if and only if the row's key is
\* absent from the parsed map of file i.
C2_SentinelIffAbsent ==
  pc = "done" =>
    \A r \in RowIndexes : \A i \in FileIndexes :
      (mismatchDetails[r].values[i] = NA) <=> ~Present(i, mismatchDetails[r].key)

\* The value of the key in file i for the comparison: absent, or present with
\* the value without its whitespace.
NormalizedEntry(i, key) ==
  IF Present(i, key)
  THEN [present |-> TRUE, v |-> RemoveWhitespace(OwnValue(parsedObjects[i], key))]
  ELSE [present |-> FALSE, v |-> <<>>]

\* C3: matched is true if and only if every file's normalized value equals the
\* first file's, an absent key being different from every present value.
C3_MatchedIffAllEqual ==
  pc = "done" =>
    \A r \in RowIndexes :
      mismatchDetails[r].matched <=>
        \A i \in FileIndexes :
          NormalizedEntry(i, mismatchDetails[r].key) =
            NormalizedEntry(1, mismatchDetails[r].key)

\* C4: the rows hold exactly one row per key of the union of the parsed maps:
\* every key of the union has exactly one row, every row's key is in the
\* union, and the number of rows is the size of the union.
C4_OneRowPerUnionKey ==
  pc = "done" =>
    /\ \A key \in UnionOfKeys : Cardinality(RowsOfKey(key)) = 1
    /\ \A r \in RowIndexes : mismatchDetails[r].key \in UnionOfKeys
    /\ Len(mismatchDetails) = Cardinality(UnionOfKeys)

\* A run that returned rows for a union of two keys or more, one of them a key
\* of two files.
C4_Witness ==
  /\ pc = "done"
  /\ Cardinality(UnionOfKeys) >= 2
  /\ \E key \in UnionOfKeys : \E i, j \in FileIndexes :
        i # j /\ Present(i, key) /\ Present(j, key)

\* C5: mismatchCount is the number of rows whose matched flag is false, so it
\* lies between 0 and the number of rows.
C5_MismatchCountIsUnmatchedRows ==
  pc = "done" =>
    /\ mismatchCount = Cardinality({r \in RowIndexes : ~mismatchDetails[r].matched})
    /\ 0 <= mismatchCount
    /\ mismatchCount <= Len(mismatchDetails)

\* A result with a matched row and an unmatched row.
C5_Witness ==
  /\ pc = "done"
  /\ mismatchCount >= 1
  /\ \E r \in RowIndexes : mismatchDetails[r].matched

SameKeysAndWhitespaceEqual ==
  /\ Len(files) = 2
  /\ KeysOfFile(1) = KeysOfFile(2)
  /\ \A key \in KeysOfFile(1) :
        RemoveWhitespace(OwnValue(parsedObjects[1], key)) =
          RemoveWhitespace(OwnValue(parsedObjects[2], key))

\* C6: two parsed maps with the same keys whose values are equal once all
\* whitespace is removed give mismatchCount 0 and every row matched (and the
\* comparison of two such maps does not throw).
C6_WhitespaceEqualMapsMatch ==
  (pc \in {"compare", "done", "threw"} /\ SameKeysAndWhitespaceEqual) =>
    /\ pc # "threw"
    /\ \A r \in RowIndexes : mismatchDetails[r].matched
    /\ pc = "done" => mismatchCount = 0 /\ Len(mismatchDetails) = Len(allKeys)

\* Two maps with a key whose values differ only by whitespace.
C6_Witness ==
  /\ pc = "done"
  /\ SameKeysAndWhitespaceEqual
  /\ \E key \in KeysOfFile(1) :
        OwnValue(parsedObjects[1], key) # OwnValue(parsedObjects[2], key)

\* The key a line records, as a list of no key or one key.
LineKey(line) == ObjectKeys(ParsePropertiesLine(EmptyObject, line))

RECURSIVE LineKeys(_)
LineKeys(lines) ==
  IF Len(lines) = 0 THEN <<>> ELSE LineKey(lines[1]) \o LineKeys(Tail(lines))

\* The keys of a file in the order its lines (entries) were parsed.
ParseOrderKeys(f) ==
  IF ToLowerCase(ExtName(f.path)) = ".properties" /\ f.readable
  THEN SetOrder(LineKeys(SplitLines(f.content)), <<>>)
  ELSE ObjectKeys(ParseFile(f).obj)

RECURSIVE FirstSeenKeys(_)
FirstSeenKeys(fs) ==
  IF Len(fs) = 0 THEN <<>> ELSE ParseOrderKeys(fs[1]) \o FirstSeenKeys(Tail(fs))

\* C7: the rows are in first-seen key order: the keys of file 1 in the order
\* their lines were parsed, then the keys of file 2 not seen before, and so on.
C7_RowsInFirstSeenOrder ==
  pc = "done" => RowKeys = SetOrder(FirstSeenKeys(files), <<>>)

C9_StoredValueIsParsedValue ==
  pc = "done" =>
    \A r \in RowIndexes : \A i \in FileIndexes :
      Present(i, mismatchDetails[r].key) =>
        mismatchDetails[r].values[i] = OwnValue(parsedObjects[i], mismatchDetails[r].key)

\* File i has an unsupported extension, cannot be read, or is malformed YAML.
Unparsable(i) ==
  LET ext == ToLowerCase(ExtName(files[i].path))
  IN \/ ext \notin {".properties", ".yml", ".yaml"}
     \/ ~files[i].readable
     \/ ext \in {".yml", ".yaml"} /\ ~files[i].loaded.ok

\* C10: when file i is unparsable the comparison still completes: it does not
\* throw, every key of the other files appears in a row, and every row has
\* "N/A" at index i.
C10_UnparsableFileDoesNotAbort ==
  \A i \in FileIndexes :
    Unparsable(i) =>
      /\ pc # "threw"
      /\ pc = "done" =>
            /\ \A j \in FileIndexes \ {i} : \A key \in KeysOfFile(j) :
                  RowsOfKey(key) # {}
            /\ \A r \in RowIndexes : mismatchDetails[r].values[i] = NA


(***************************************************************************)
(* Properties of the parsers, on compareFileData([filePath]).              *)
(***************************************************************************)
\* The file of the call has been given to parseFile.
Parsed == Len(parsedObjects) = 1 \/ (pc = "threw" /\ parsedObjects = <<>>)

\* The exception left parseFile.
ParseRaised == pc = "threw" /\ parsedObjects = <<>>

TheFile == files[1]

ByPropertiesParser == ToLowerCase(TheFile.path.ext) = ".properties"

ByYamlParser == ToLowerCase(TheFile.path.ext) \in {".yml", ".yaml"}

Unreadable == ~TheFile.readable

MalformedYaml == TheFile.readable /\ ~TheFile.loaded.ok

\* C11: parsePropertiesFile and parseYamlFile never raise; for a file that
\* cannot be read, and for a YAML file that is malformed, exactly one error is
\* reported, which names the path of the file and the underlying cause, and
\* the map returned is empty.
C11_ParsersNeverRaise ==
  (Parsed /\ (ByPropertiesParser \/ ByYamlParser)) =>
    /\ ~ParseRaised
    /\ (Unreadable \/ (ByYamlParser /\ MalformedYaml)) =>
         /\ Len(errorLog) = 1
         /\ errorLog[1].path = TheFile.path
         /\ errorLog[1].cause = (IF Unreadable THEN "read-failed" ELSE "yaml-exception")
         /\ parsedObjects = <<EmptyObject>>
    /\ ~(Unreadable \/ (ByYamlParser /\ MalformedYaml)) => errorLog = <<>>

C11_Witness ==
  /\ Parsed
  /\ ByYamlParser
  /\ MalformedYaml
  /\ Len(errorLog) = 1
  /\ pc = "done"


\* The spellings of the supported extensions in the files of the run.
PropertiesExtensions == {".properties", ".PROPERTIES", ".Properties"}

YamlExtensions == {".yml", ".YML", ".yaml", ".YAML", ".Yaml"}

\* C12: parseFile chooses the parser by the extension of the path, compared
\* without regard to case: .properties goes to the properties parser, .yml
\* and .yaml go to the YAML parser; for any other extension, and for none, it
\* warns of the unsupported extension and returns an empty map, without
\* raising and without reading the file.
C12_ParserByExtension ==
  Parsed =>
    /\ ~ParseRaised
    /\ TheFile.path.ext \in PropertiesExtensions =>
         /\ reads = <<TheFile.path>>
         /\ TheFile.readable => parsedObjects[1] = ParsePropertiesContent(TheFile.content)
         /\ \A i \in 1..Len(errorLog) : errorLog[i].msg = "properties-error"
    /\ TheFile.path.ext \in YamlExtensions =>
         /\ reads = <<TheFile.path>>
         /\ (TheFile.readable /\ TheFile.loaded.ok) =>
              parsedObjects[1] = FlattenObject(TheFile.loaded.data, <<>>, EmptyObject)
         /\ \A i \in 1..Len(errorLog) : errorLog[i].msg = "yaml-error"
    /\ TheFile.path.ext \notin PropertiesExtensions \cup YamlExtensions =>
         /\ reads = <<>>
         /\ parsedObjects = <<EmptyObject>>
         /\ errorLog = <<LogEntry("unsupported-extension", TheFile.path, "none")>>

C12_Witness ==
  /\ Parsed
  /\ TheFile.path.ext = ""
  /\ reads = <<>>
  /\ Len(errorLog) = 1
  /\ pc = "done"


\* The .properties file of the call has been read and parsed.
PropertiesParsed == Parsed /\ ByPropertiesParser /\ TheFile.readable

Contains(str, ch) == \E i \in 1..Len(str) : str[i] = ch

\* The text of a line before its first '#' (the whole line when it has none).
BeforeHash(line) ==
  SubSeq(line, 1,
         CHOOSE n \in 0..Len(line) :
           /\ \A i \in 1..n : line[i] # "#"
           /\ n = Len(line) \/ line[n + 1] = "#")

\* A line that is empty after trimming or whose first character then is '#'.
BlankOrComment(line) == Len(Trim(line)) = 0 \/ Trim(line)[1] = "#"

WithoutComments(content) ==
  LET lines == SplitLines(content)
  IN Join([i \in 1..Len(lines) |-> BeforeHash(lines[i])], <<"\n">>)

\* C13: a line that is empty or starts with '#' after trimming records
\* nothing; of any other line the first '#' and all after it is discarded
\* before the key and the value are looked for, so the map is the map of the
\* content without its comments, and no key and no value holds a '#'.
C13_CommentsDiscarded ==
  PropertiesParsed =>
    LET obj == parsedObjects[1]
        lines == SplitLines(TheFile.content)
    IN /\ \A i \in 1..Len(obj) : ~Contains(obj[i].k, "#") /\ ~Contains(obj[i].v, "#")
       /\ obj = ParsePropertiesContent(WithoutComments(TheFile.content))
       /\ (\A i \in 1..Len(lines) : BlankOrComment(lines[i])) => obj = EmptyObject

C13_Witness ==
  /\ PropertiesParsed
  /\ TheFile.content = <<"a", "=", "a", "#", "a">>
  /\ parsedObjects[1] = ObjectSet(EmptyObject, KeyA, <<"a">>)
  /\ pc = "done"


\* The lines that remain once blank lines, comment lines and inline comments
\* are gone, in the order of the file.
RECURSIVE SelectRemaining(_)
SelectRemaining(lines) ==
  IF Len(lines) = 0 THEN <<>>
  ELSE IF BlankOrComment(lines[1]) THEN SelectRemaining(Tail(lines))
  ELSE <<Trim(BeforeHash(lines[1]))>> \o SelectRemaining(Tail(lines))

RemainingLines(content) == SelectRemaining(SplitLines(content))

\* The position of the first '=' of a line that has one.
FirstEq(line) ==
  CHOOSE n \in 1..Len(line) : line[n] = "=" /\ \A i \in 1..(n - 1) : line[i] # "="

KeyOfLine(line) == Trim(SubSeq(line, 1, FirstEq(line) - 1))

ValueOfLine(line) == Trim(SubSeq(line, FirstEq(line) + 1, Len(line)))

\* A line with a '=' and a key that is not empty.
KeyValueLine(line) == Contains(line, "=") /\ Len(KeyOfLine(line)) > 0

\* C14: each remaining line is split at its first '=' only, the key being
\* the trimmed text before it and the value the trimmed text after it; a line
\* with no '=' or with an empty key records nothing; every other line records
\* its key, and the value of a key is the value of the last line that has it.
C14_SplitAtFirstEquals ==
  PropertiesParsed =>
    LET obj == parsedObjects[1]
        lines == RemainingLines(TheFile.content)
    IN /\ \A i \in 1..Len(obj) :
            \E n \in 1..Len(lines) :
              /\ KeyValueLine(lines[n])
              /\ KeyOfLine(lines[n]) = obj[i].k
              /\ ValueOfLine(lines[n]) = obj[i].v
              /\ \A m \in (n + 1)..Len(lines) :
                    KeyValueLine(lines[m]) => KeyOfLine(lines[m]) # obj[i].k
       /\ \A n \in 1..Len(lines) :
            KeyValueLine(lines[n]) => \E i \in 1..Len(obj) : obj[i].k = KeyOfLine(lines[n])
       /\ \A i, j \in 1..Len(obj) : obj[i].k = obj[j].k => i = j

\* The same for the files none of whose keys is __proto__.
C14_ExceptProtoKey ==
  (PropertiesParsed /\ TheFile.content # LineProto) => C14_SplitAtFirstEquals


\* The YAML file of the call has been read and decoded.
YamlParsed == Parsed /\ ByYamlParser /\ TheFile.readable /\ TheFile.loaded.ok

TheDocument == TheFile.loaded.data

\* k1.k2.....kn for the keys k1, ..., kn.
RECURSIVE DottedKey(_)
DottedKey(keys) ==
  IF Len(keys) = 1 THEN keys[1]
  ELSE keys[1] \o <<".">> \o DottedKey(Tail(keys))

\* The values that are not mappings, each with the mapping keys that lead to
\* it from the node.
RECURSIVE LeavesUnder(_, _)
LeavesUnder(node, keys) ==
  IF node.t = "mapping"
  THEN UNION {LeavesUnder(node.e[i].v, Append(keys, node.e[i].k)) : i \in 1..Len(node.e)}
  ELSE {[keys |-> keys, v |-> node]}

ScalarLeaves(doc) == {l \in LeavesUnder(doc, <<>>) : l.v.t # "sequence"}

SequenceEntries(doc) == {l \in LeavesUnder(doc, <<>>) : l.v.t = "sequence"}

\* C15: for a document whose root is a mapping, the map returned has, for
\* each scalar leaf reached through the mapping keys k1, ..., kn, the key
\* k1.k2.....kn with the string form of the scalar, and has no key that does
\* not arise from such a leaf or from a sequence-valued entry.
C15_DotPathPerScalarLeaf ==
  (YamlParsed /\ TheDocument.t = "mapping") =>
    LET obj == parsedObjects[1]
    IN /\ \A l \in ScalarLeaves(TheDocument) :
            /\ HasOwn(obj, DottedKey(l.keys))
            /\ OwnValue(obj, DottedKey(l.keys)) = ToStringValue(l.v)
       /\ \A i \in 1..Len(obj) :
            \E l \in LeavesUnder(TheDocument, <<>>) : DottedKey(l.keys) = obj[i].k

\* Every key of the document is a non-empty name other than __proto__, and no
\* two leaves have the same dotted key.
PlainKeys(doc) ==
  /\ \A l \in LeavesUnder(doc, <<>>) :
        \A i \in 1..Len(l.keys) : l.keys[i] # <<>> /\ l.keys[i] # ProtoKey
  /\ \A l1, l2 \in LeavesUnder(doc, <<>>) :
        DottedKey(l1.keys) = DottedKey(l2.keys) => l1 = l2

\* The same for the documents of plain keys.
C15_OfPlainKeys ==
  (YamlParsed /\ TheDocument.t = "mapping" /\ PlainKeys(TheDocument)) =>
    C15_DotPathPerScalarLeaf


\* The keys that are the indexes of the elements of a sequence.
IndexKeys(sequence) == {NatToString(i - 1) : i \in 1..Len(sequence.e)}

\* C16: a sequence is never flattened.  A sequence under mapping keys (plain
\* ones) yields exactly one entry, under the dotted key of its path, whose
\* value is the whole sequence as a string; a document that is a sequence
\* yields one entry with the whole sequence as a string; and no key of the
\* map is the index of an element of a sequence.
C16_SequencesNotFlattened ==
  YamlParsed =>
    LET obj == parsedObjects[1]
    IN /\ (TheDocument.t = "mapping" /\ PlainKeys(TheDocument)) =>
            \A l \in SequenceEntries(TheDocument) :
              /\ HasOwn(obj, DottedKey(l.keys))
              /\ OwnValue(obj, DottedKey(l.keys)) = ToStringValue(l.v)
              /\ \A i \in 1..Len(obj) :
                    \A n \in IndexKeys(l.v) :
                      /\ obj[i].k # n
                      /\ obj[i].k # DottedKey(Append(l.keys, n))
       /\ TheDocument.t = "sequence" =>
            /\ Len(obj) = 1
            /\ obj[1].v = ToStringValue(TheDocument)
            /\ obj[1].k \notin IndexKeys(TheDocument)

\* The same for the documents that are not a sequence at the root.
C16_BelowTheRoot == (YamlParsed /\ TheDocument.t # "sequence") => C16_SequencesNotFlattened


(***************************************************************************)
(* Properties of compareFiles, run and cli.js.                             *)
(***************************************************************************)
\* compareFiles has returned to its caller.
Returned == cpc = "returned"

\* The calls of console.error with the "Unsupported format" warning.
FormatWarnings == SelectSeq(errorLog, LAMBDA e : e.msg = "unsupported-format")

\* The caller gave a format value, and it is none of console, html, markdown.
OtherFormat == options.format \notin {"console", "html", "markdown", Absent}

\* C17: with a format value other than console, html and markdown,
\* compareFiles first reports the "Unsupported format" warning (nothing is
\* printed before it) and then prints exactly the console rendering of the
\* comparison of the same files, and writes no file; with no format it
\* prints the console rendering with no warning.
C17_UnsupportedFormatFallsBack ==
  /\ (OtherFormat /\ stdout # <<>>) => Len(FormatWarnings) >= 1
  /\ (OtherFormat /\ Returned) =>
        /\ Len(FormatWarnings) = 1
        /\ FormatWarnings[1].cause = options.format
        /\ stdout = ConsoleRendering(ComparisonData)
        /\ written = <<>>
  /\ (options.format = Absent /\ Returned) =>
        /\ FormatWarnings = <<>>
        /\ stdout = ConsoleRendering(ComparisonData)
        /\ written = <<>>

\* The same for the format values that are not the empty string.
C17_OfNonEmptyFormat == options.format # "" => C17_UnsupportedFormatFallsBack


\* The caller asked for a document.
DocumentFormat == options.format \in {"html", "markdown"}

\* The document of the format asked for, for the comparison made.
TheReport ==
  IF options.format = "html"
  THEN GenerateHtmlReport(filePaths, ComparisonData)
  ELSE GenerateMarkdownReport(filePaths, ComparisonData)

Documents(outs) == SelectSeq(outs, LAMBDA o : o.kind = "document")

CommandLineRead == entryPoint \in {"run", "cli"} /\ cpc # "start"

\* No path, one path, or a path that does not exist.
InvalidInput ==
  \/ Len(filePaths) < 2
  \/ \E i \in 1..Len(filePaths) : ~ExistsSync(filePaths[i])

\* C19: when the command line yields no file path, one file path, or a path
\* that does not exist, run and the program of cli.js end with exit code 1
\* and start no comparison.
C19_InvalidInputExitsWithOne ==
  (CommandLineRead /\ InvalidInput) =>
    /\ calls = 0
    /\ cpc = "exited"
    /\ exit = "1"

\* The same for run alone.
C19_OfRun == entryPoint = "run" => C19_InvalidInputExitsWithOne


\* C20: when the command line of run yields two paths or more, all of files
\* that exist, run goes on to the comparison and gives no code to
\* process.exit, whatever the count of mismatches; it gives a code to
\* process.exit, the code 1, only for input that fails the validation.
C20_ValidInputNeverExits ==
  (entryPoint = "run" /\ cpc # "start") =>
    /\ ~InvalidInput =>
          /\ exit = "none"
          /\ cpc \in {"call", "data", "returned", "crashed"}
          /\ cpc # "call" => calls >= 1
          /\ Returned => stdout # <<>>
    /\ exit # "none" => (InvalidInput /\ exit = "1" /\ calls = 0)

C20_Witness ==
  /\ entryPoint = "run"
  /\ Returned
  /\ ~InvalidInput
  /\ mismatchCount >= 1
  /\ exit = "none"


\* compareFiles has been called from run or from the action of cli.js.
ComparatorInvoked == entryPoint \in {"run", "cli"} /\ calls >= 1

\* C21: compareFiles and compareFileData are reached from run and from the
\* action of cli.js only after the check that there are two paths or more and
\* the check that every path exists: when they run, filePaths holds at least
\* two paths and every one names a file that exists.
C21_ComparatorOnCheckedPaths ==
  ComparatorInvoked =>
    /\ Len(filePaths) >= 2
    /\ \A i \in 1..Len(filePaths) : ExistsSync(filePaths[i])

\* The same for run alone.
C21_OfRun == entryPoint = "run" => C21_ComparatorOnCheckedPaths


(***************************************************************************)
(* Properties of the renderings.                                           *)
(***************************************************************************)
\* compareFiles has returned for the three formats.
AllRendered == entryPoint = "allFormats" /\ cpc = "returned" /\ options.format = "markdown"

OutsOfKind(kind) == SelectSeq(stdout, LAMBDA o : o.kind = kind)

\* The table console.table was given, and the documents printed.
ConsoleTable == OutsOfKind("table")[1].rows

HtmlDocument == SelectSeq(stdout, LAMBDA o : o.doc.kind = "html")[1].doc

MarkdownDocument == SelectSeq(stdout, LAMBDA o : o.doc.kind = "markdown")[1].doc

KeysOfRows(rows) == [i \in 1..Len(rows) |-> rows[i].Key]

MarksOfRows(rows) == [i \in 1..Len(rows) |-> rows[i].Matched]

\* The keys the console summary names (none when it names none).
ConsoleMismatchedKeys ==
  IF OutsOfKind("mismatched-keys") = <<>> THEN <<>>
  ELSE OutsOfKind("mismatched-keys")[1].keys

\* C22: for the same files and the same comparison result, the console, HTML
\* and Markdown renderings list the same keys in the same order, the row order
\* of compareFileData, mark the same keys Yes and the same keys No, and name
\* the same mismatched keys in their summaries.
C22_RenderingsAgree ==
  AllRendered =>
    /\ KeysOfRows(ConsoleTable) = RowKeys
    /\ KeysOfRows(HtmlDocument.rows) = RowKeys
    /\ KeysOfRows(MarkdownDocument.rows) = RowKeys
    /\ MarksOfRows(ConsoleTable) = MarksOfRows(HtmlDocument.rows)
    /\ MarksOfRows(ConsoleTable) = MarksOfRows(MarkdownDocument.rows)
    /\ \A r \in RowIndexes :
         ConsoleTable[r].Matched = (IF mismatchDetails[r].matched THEN "Yes" ELSE "No")
    /\ ConsoleMismatchedKeys = HtmlDocument.keys
    /\ ConsoleMismatchedKeys = MarkdownDocument.keys

\* Three renderings of a result with a matched row and an unmatched row.
C22_Witness ==
  /\ AllRendered
  /\ \E r \in RowIndexes : mismatchDetails[r].matched
  /\ \E r \in RowIndexes : ~mismatchDetails[r].matched
  /\ Len(HtmlDocument.rows) >= 2


\* The keys of the rows whose matched flag is false, in row order.
UnmatchedRowKeys ==
  LET upTo[n \in 0..Len(mismatchDetails)] ==
        IF n = 0 THEN <<>>
        ELSE IF mismatchDetails[n].matched THEN upTo[n - 1]
        ELSE Append(upTo[n - 1], mismatchDetails[n].key)
  IN upTo[Len(mismatchDetails)]

\* The summary of a document is right for the result.
DocumentSummaryRight(doc) ==
  /\ doc.summary = "all-match" <=> mismatchCount = 0
  /\ doc.summary \in {"all-match", "mismatches"}
  /\ doc.summary = "mismatches" =>
       /\ doc.count = mismatchCount
       /\ doc.keys = UnmatchedRowKeys
       /\ Len(doc.keys) = mismatchCount

\* C23: each of the three renderers states "All properties match across all
\* files!" exactly when mismatchCount is 0, and otherwise states the sentence
\* with mismatchCount followed by the keys of the unmatched rows in row order;
\* the keys listed are mismatchCount many.
C23_SummaryStatesTheCount ==
  AllRendered =>
    /\ OutsOfKind("all-match") # <<>> <=> mismatchCount = 0
    /\ OutsOfKind("mismatch-count") # <<>> <=> mismatchCount # 0
    /\ mismatchCount # 0 =>
         /\ OutsOfKind("mismatch-count")[1].count = mismatchCount
         /\ OutsOfKind("mismatched-keys") # <<>>
         /\ ConsoleMismatchedKeys = UnmatchedRowKeys
         /\ Len(ConsoleMismatchedKeys) = mismatchCount
         /\ \E i \in 1..(Len(stdout) - 1) :
              stdout[i].kind = "mismatch-count" /\ stdout[i + 1].kind = "mismatched-keys"
    /\ DocumentSummaryRight(HtmlDocument)
    /\ DocumentSummaryRight(MarkdownDocument)

\* Three renderings of a result with two unmatched rows.
C23_Witness ==
  /\ AllRendered
  /\ mismatchCount = 2
  /\ MarkdownDocument.summary = "mismatches"


(***************************************************************************)
(* Properties of checkIfAllValuesMatch and getMismatchFields.              *)
(***************************************************************************)
BothReturned == cpc = "both-returned"

\* C24: checkIfAllValuesMatch(paths) is true if and only if the mismatchCount
\* of compareFileData(paths) is 0, if and only if getMismatchFields(paths) is
\* empty; getMismatchFields returns the keys of the rows with matched false,
\* each once, in row order.
C24_HelpersAgreeWithCount ==
  BothReturned =>
    /\ returned.allMatch <=> mismatchCount = 0
    /\ returned.allMatch <=> returned.fields = <<>>
    /\ returned.fields = UnmatchedRowKeys
    /\ \A i, j \in 1..Len(returned.fields) :
         returned.fields[i] = returned.fields[j] => i = j

\* Both helpers returned for files with an unmatched row and a matched row.
C24_Witness ==
  /\ BothReturned
  /\ ~returned.allMatch
  /\ Len(returned.fields) = 1
  /\ Len(mismatchDetails) = 2


(***************************************************************************)
(* Reads and reports of one invocation of compareFiles.                    *)
(***************************************************************************)
CountOf(seq, x) == Cardinality({i \in 1..Len(seq) : seq[i] = x})

\* The paths of the parse warnings and errors reported so far.
ReportedPaths ==
  LET parseLog == SelectSeq(errorLog, LAMBDA e : e.msg # "unsupported-format")
  IN  [i \in 1..Len(parseLog) |-> parseLog[i].path]

ReadOncePerPath ==
  \A i \in 1..Len(filePaths) :
    /\ CountOf(reads, filePaths[i]) <= CountOf(filePaths, filePaths[i])
    /\ CountOf(ReportedPaths, filePaths[i]) <= CountOf(filePaths, filePaths[i])

\* C25: in one invocation of compareFiles no input file is read more than
\* once, and no parse warning or error of a file is reported more than once,
\* whatever the format option is.
C25_EachFileReadOnce ==
  (entryPoint = "compareFiles" /\ Returned) => ReadOncePerPath

\* C25, for the formats console, html, markdown and an absent format.
C25_OfKnownFormats ==
  (entryPoint = "compareFiles" /\ Returned /\ ~fallback) => ReadOncePerPath

\* compareFiles returned for a known format after reading a file.
C25_OfKnownFormatsWitness ==
  /\ entryPoint = "compareFiles"
  /\ Returned
  /\ ~fallback
  /\ Len(reads) > 0
  /\ Len(ReportedPaths) > 0


(***************************************************************************)
(* The order of the console output.                                        *)
(***************************************************************************)
ConsoleReturned == Returned /\ calls > 0 /\ FormatOf(CurrentOptions) = "console"

KindsOf(outs) == [i \in 1..Len(outs) |-> outs[i].kind]

\* The keys of the highlighted lines, in the order of their printing.
HighlightedKeys ==
  LET lines == OutsOfKind("highlight")
  IN  [i \in 1..Len(lines) |-> lines[i].rows[1].Key]

\* C26: the console rendering prints the header, then the table with one row
\* per key, then the "Highlighted Mismatched Rows" title with one line per
\* unmatched row in row order and none for a matched row, then the summary;
\* there are mismatchCount highlighted lines.
C26_ConsoleOrder ==
  ConsoleReturned =>
    LET h == Len(OutsOfKind("highlight"))
        kinds == KindsOf(stdout)
    IN /\ Len(stdout) >= 4 + h
       /\ SubSeq(kinds, 1, 3) = <<"header", "table", "highlight-title">>
       /\ \A i \in 4..(3 + h) : kinds[i] = "highlight"
       /\ kinds[4 + h] = "summary-title"
       /\ \A i \in (5 + h)..Len(stdout) :
            kinds[i] \in {"all-match", "mismatch-count", "mismatched-keys"}
       /\ Len(stdout) > 4 + h
       /\ KeysOfRows(ConsoleTable) = [i \in 1..Len(mismatchDetails) |-> mismatchDetails[i].key]
       /\ HighlightedKeys = UnmatchedRowKeys
       /\ h = mismatchCount

\* A console rendering of a matched row and then an unmatched row: one
\* highlighted line.
C26_Witness ==
  /\ ConsoleReturned
  /\ Len(OutsOfKind("highlight")) = 1
  /\ Len(mismatchDetails) = 2
  /\ mismatchDetails[1].matched


(***************************************************************************)
(* Termination of compareFiles.                                            *)
(***************************************************************************)
\* compareFiles returned, or an exception left it.
CompareFilesEnded == cpc \in {"returned", "crashed", "exited"}

\* The call compareFiles made itself is running.
Reentered == fallback /\ calls = 2

FallbackOnce ==
  /\ calls <= 2
  /\ Len(FormatWarnings) <= 1
  /\ (fallback /\ cpc = "data") => FormatOf(CurrentOptions) = "console"
  /\ (fallback /\ Returned) =>
       /\ Reentered
       /\ stdout # <<>>
       /\ stdout[1].kind = "header"
       /\ written = <<>>
       /\ \A i \in 1..Len(stdout) : stdout[i].doc = NoReport

\* What is left of the execution of compareFiles, in lexicographic order:
\* the calls and returns left, the phases of compareFileData left in the
\* running call, and the files or keys left in the running phase.
StepsLeft ==
  <<IF CompareFilesEnded THEN 0
    ELSE IF cpc = "uncalled" THEN 5
    ELSE IF cpc = "call" THEN 4 - 2 * calls
    ELSE 5 - 2 * calls,
    IF pc = "parse" THEN 3 ELSE IF pc = "compare" THEN 2 ELSE IF pc = "idle" THEN 0 ELSE 1,
    IF pc = "parse" THEN Len(files) - Len(parsedObjects)
    ELSE IF pc = "compare" THEN Len(allKeys) - Len(mismatchDetails)
    ELSE 0>>

LexLess(a, b) ==
  \/ a[1] < b[1]
  \/ a[1] = b[1] /\ a[2] < b[2]
  \/ a[1] = b[1] /\ a[2] = b[2] /\ a[3] < b[3]

\* C27: compareFiles ends for every options value (every step lowers what
\* is left of the execution, which is never below zero); the fallback enters
\* compareFiles again at most once, and the call it makes takes the console
\* branch and reports no second "Unsupported format" warning.
C27_FallbackTerminates ==
  /\ [](FallbackOnce /\ \A i \in 1..3 : StepsLeft[i] >= 0)
  /\ [][LexLess(StepsLeft', StepsLeft)]_vars

\* compareFiles returned after the fallback: two calls, one warning.
C27_Witness ==
  /\ Returned
  /\ Reentered
  /\ Len(FormatWarnings) = 1
  /\ OtherFormat


(***************************************************************************)
(* compareFileData and the order of the files.                             *)
(***************************************************************************)
\* The call on the permuted list ended.
PermutedEnded == cpc = "permuted" /\ pc \in {"done", "threw"}

KeySet(details) == {details[i].key : i \in 1..Len(details)}

MatchedOf(details, key) ==
  LET i == CHOOSE j \in 1..Len(details) : details[j].key = key
  IN  details[i].matched

\* The files are in another order than in the first call.
OrderChanged == files # disk

\* C28: compareFileData on a permutation of the file list gives the same set
\* of row keys, the same matched flag for every key and the same
\* mismatchCount as on the list itself (and throws if and only if the call on
\* the list throws).
C28_ClassificationOfPermutation ==
  PermutedEnded =>
    /\ (pc = "threw") <=> returned.threw
    /\ pc = "done" =>
         /\ KeySet(mismatchDetails) = KeySet(returned.data.mismatchDetails)
         /\ \A k \in KeySet(mismatchDetails) :
              MatchedOf(mismatchDetails, k) = MatchedOf(returned.data.mismatchDetails, k)
         /\ mismatchCount = returned.data.mismatchCount

\* Three files in another order, with a matched and an unmatched row whose
\* first two values are equal, in rows of another order than before.
C28_Witness ==
  /\ PermutedEnded
  /\ pc = "done"
  /\ OrderChanged
  /\ Len(files) = 3
  /\ mismatchCount = 1
  /\ Len(mismatchDetails) = 2
  /\ KeysOfRows([i \in 1..2 |-> [Key |-> mismatchDetails[i].key]])
       # KeysOfRows([i \in 1..2 |-> [Key |-> returned.data.mismatchDetails[i].key]])


(***************************************************************************)
(* The entries of the flat map and the leaves of the document.             *)
(***************************************************************************)
\* C29: flattening loses no leaf.  Every value of the document that is not
\* a mapping has its own entry, no two of them under the same key: the flat
\* map has as many entries as the document has leaves.
C29_EntryPerLeaf ==
  (YamlParsed /\ TheDocument.t = "mapping") =>
    LET obj == parsedObjects[1]
        leaves == LeavesUnder(TheDocument, <<>>)
    IN Len(obj) = Cardinality(leaves)

\* The same for the documents of plain keys.
C29_OfPlainKeys ==
  (YamlParsed /\ TheDocument.t = "mapping" /\ PlainKeys(TheDocument)) =>
    /\ C29_EntryPerLeaf
    /\ \A l \in LeavesUnder(TheDocument, <<>>) :
         HasOwn(parsedObjects[1], DottedKey(l.keys))

\* A document of plain keys with a leaf below a key that holds a dot and a
\* leaf at the root.
C29_OfPlainKeysWitness ==
  /\ YamlParsed
  /\ TheDocument.t = "mapping"
  /\ PlainKeys(TheDocument)
  /\ Len(parsedObjects[1]) = 2
  /\ \E l \in LeavesUnder(TheDocument, <<>>) : Len(l.keys) = 2 /\ l.keys[1] = KeyDotted


(***************************************************************************)
(* Files with no property at all.                                          *)
(***************************************************************************)
\* Every file of the call was parsed to an empty map.
AllParsedEmpty ==
  /\ Len(parsedObjects) = Len(files)
  /\ \A i \in 1..Len(parsedObjects) : parsedObjects[i] = <<>>

\* C30: when every input file parses to an empty map, compareFileData
\* returns no row and mismatchCount 0, checkIfAllValuesMatch gives true, and
\* the console output, the HTML document and the Markdown document each have
\* the all-match summary and a table without rows.
C30_NothingToCompare ==
  (AllRendered /\ AllParsedEmpty) =>
    /\ mismatchDetails = <<>>
    /\ mismatchCount = 0
    /\ AllValuesMatch(ComparisonData)
    /\ ConsoleTable = <<>>
    /\ Len(OutsOfKind("all-match")) = 1
    /\ OutsOfKind("mismatch-count") = <<>>
    /\ OutsOfKind("highlight") = <<>>
    /\ HtmlDocument.rows = <<>>
    /\ HtmlDocument.summary = "all-match"
    /\ MarkdownDocument.rows = <<>>
    /\ MarkdownDocument.summary = "all-match"

\* The three renderings of a file with an unsupported extension and a file
\* that cannot be read.
C30_Witness ==
  /\ AllRendered
  /\ AllParsedEmpty
  /\ files[1].path.ext = ".txt"
  /\ ~files[2].readable

\* C30, for checkIfAllValuesMatch and getMismatchFields themselves.
C30_OfHelpers ==
  (BothReturned /\ AllParsedEmpty) => (returned.allMatch /\ returned.fields = <<>>)

\* The helpers returned for a malformed YAML file and a file without lines.
C30_OfHelpersWitness ==
  /\ BothReturned
  /\ AllParsedEmpty
  /\ Len(files) = 2
  /\ files[1].path.ext = ".yaml"
  /\ ~files[1].loaded.ok
  /\ files[2].content = <<>>
  /\ files[2].path.ext = ".properties"
  /\ files[2].readable

====
